---- MODULE Spec2Model ----
(***************************************************************************)
(* Model of src/features.py: the training-mode feature builder             *)
(* (build_features_for_games) and the inference-mode feature builder       *)
(* (build_features_for_matchups), with their shared per-team state         *)
(* (rolling histories, last-played date, Elo rating).                      *)
(*                                                                         *)
(* Python floats are represented in fixed point:                           *)
(*   ratings        in units of 1/RatingScale rating points,               *)
(*   probabilities  in units of 1/ProbScale,                               *)
(*   window means and deviations in units of 1/StatScale,                  *)
(*   rest days, scores, margins and counts as whole numbers.               *)
(* Dates are day numbers.  NaT is the value pd.to_datetime(errors=         *)
(* "coerce") gives an unparseable matchup date; NaN is the float that      *)
(* arithmetic on NaT produces.                                             *)
(***************************************************************************)
EXTENDS Integers, Sequences, FiniteSets, TLC

VARIABLES
    mode,         \* which builder was called: "train" or "infer"
    pc,           \* position in the call: "start", "loop", "done"
    games,        \* argument games / hist_games, in input order
    matchups,     \* argument matchups, in input order
    df,           \* the date-sorted log (df in training, hist_rows in inference)
    subs,         \* the prepared copy of matchups
    hist_margin,  \* team -> margins, oldest first
    hist_pf,      \* team -> points scored
    hist_pa,      \* team -> points allowed
    last_date,    \* team -> date of its last contest, or None
    elo,          \* team -> rating
    i,            \* number of log rows consumed (loop index / cursor)
    j,            \* number of matchup requests served
    rows_feat,    \* training rows emitted
    rows_y,       \* training targets emitted
    out_feats,    \* inference rows emitted
    ref_df,       \* sorted log of an earlier build of the same caller
    ref_rows,     \* rows of that earlier build
    roll_out      \* team -> value returned by roll_stats, when it is called alone

vars == <<mode, pc, games, matchups, df, subs, hist_margin, hist_pf, hist_pa,
          last_date, elo, i, j, rows_feat, rows_y, out_feats, ref_df, ref_rows, roll_out>>

store == <<hist_margin, hist_pf, hist_pa, last_date, elo>>

----------------------------------------------------------------------------
(* Bounds of the model.                                                    *)

MaxGames == 2
MaxHist == 2
MaxMatchups == 2
MaxLen == 4
MaxLog == 3

Teams == {"A", "B", "C", "D"}

\* (home_team, away_team, home_score, away_score) of the contests in the
\* inputs: home wins, away wins and ties
TrainResults ==
    {<<"A", "B", 70, 60>>, <<"A", "B", 60, 60>>, <<"A", "B", 60, 70>>,
     <<"B", "A", 70, 60>>, <<"B", "A", 60, 60>>, <<"C", "A", 60, 70>>}
HistResults == {<<"A", "B", 70, 60>>, <<"C", "A", 60, 60>>}

\* (home_score, away_score) a contest may be given when a log is built again
ScorePairs == {<<70, 60>>, <<60, 70>>, <<60, 60>>}

\* (Home, Away) of the matchup requests
MatchupFixtures == {<<"A", "B">>}

TrainDates == {1, 3, 20}
HistDates == {1, 3}

----------------------------------------------------------------------------
(* Values.                                                                 *)

None == 0
NaT == -1
NaN == -999999

RatingScale == 500
ProbScale == 10000
StatScale == 100

windows == <<1, 2>>
elo_k == 20
elo_home_adv == 65
Baseline == 1500 * RatingScale
DefaultRest == 7
MaxRest == 14

MatchupDates == {2, 3, 20, NaT}

Min(a, b) == IF a < b THEN a ELSE b
Max(a, b) == IF a > b THEN a ELSE b

\* Timestamp comparison: any comparison with NaT is False
DateLT(a, b) == a # NaT /\ b # NaT /\ a < b

\* float subtraction: NaN propagates
FSub(a, b) == IF a = NaN \/ b = NaN THEN NaN ELSE a - b

RECURSIVE Sum(_)
Sum(s) == IF s = <<>> THEN 0 ELSE Head(s) + Sum(Tail(s))

RECURSIVE SumSq(_)
SumSq(s) == IF s = <<>> THEN 0 ELSE Head(s) * Head(s) + SumSq(Tail(s))

\* n / d rounded to the nearest whole number (d > 0)
RoundDiv(n, d) == (2 * n + d) \div (2 * d)

RECURSIVE SqrtIter(_, _)
SqrtIter(n, x) ==
    LET y == (x + n \div x) \div 2
    IN  IF y >= x THEN x ELSE SqrtIter(n, y)

\* floor of the square root
Isqrt(n) == IF n <= 0 THEN 0 ELSE SqrtIter(n, n)

\* np.mean, in 1/StatScale
Mean(s) == RoundDiv(StatScale * Sum(s), Len(s))

\* np.std (population standard deviation), in 1/StatScale
Std(s) ==
    LET n == Len(s)
    IN  Isqrt(StatScale * StatScale * (n * SumSq(s) - Sum(s) * Sum(s))) \div n

\* Slice taking the first w entries instead of the last w
SliceFromFront(s, w) == SubSeq(s, 1, Min(w, Len(s)))

\* s[-w:]
Slice(s, w) == SubSeq(s, Max(1, Len(s) - w + 1), Len(s))

----------------------------------------------------------------------------
(* Inputs.                                                                 *)

SeqsUpTo(S, n) == UNION {[1..k -> S] : k \in 0..n}

Contests(results, dates) ==
    {[date |-> d, home_team |-> r[1], away_team |-> r[2],
      home_score |-> r[3], away_score |-> r[4]] :
        d \in dates, r \in results}

Requests ==
    {[Date |-> d, Away |-> f[2], Home |-> f[1]] :
        d \in MatchupDates, f \in MatchupFixtures}

\* the outcomes of sort_values("date"): the default sort kind does not
\* promise the order of rows with equal dates
sort_values(s) ==
    {t \in {[k \in 1..Len(s) |-> s[p[k]]] : p \in Permutations(1..Len(s))} :
        \A k \in 1..(Len(s) - 1) : t[k].date <= t[k + 1].date}

----------------------------------------------------------------------------
(* The per-team state of one build.                                        *)

FreshStore ==
    [hist_margin |-> [t \in Teams |-> <<>>],
     hist_pf     |-> [t \in Teams |-> <<>>],
     hist_pa     |-> [t \in Teams |-> <<>>],
     last_date   |-> [t \in Teams |-> None],
     elo         |-> [t \in Teams |-> Baseline]]

CurStore ==
    [hist_margin |-> hist_margin, hist_pf |-> hist_pf, hist_pa |-> hist_pa,
     last_date |-> last_date, elo |-> elo]

\* (cur_date - d).days
DaysBetween(cur_date, d) == IF cur_date = NaT THEN NaN ELSE cur_date - d

rest_days(S, team, cur_date) ==
    LET d == S.last_date[team]
        r == DaysBetween(cur_date, d)
    IN  IF d = None THEN DefaultRest
        ELSE IF r = NaN THEN NaN
        ELSE IF r < 0 THEN 0
        ELSE IF r > MaxRest THEN MaxRest
        ELSE r

WindowSet == {windows[n] : n \in 1..Len(windows)}
RollNames == {"margin_avg", "margin_std", "pf_avg", "pa_avg", "cnt"}

roll_stats(S, team) ==
    LET m  == S.hist_margin[team]
        pf == S.hist_pf[team]
        pa == S.hist_pa[team]
    IN  [k \in RollNames \X WindowSet |->
            LET w == k[2]
            IN  CASE k[1] = "margin_avg" -> IF Len(m) > 0 THEN Mean(Slice(m, w)) ELSE 0
                  [] k[1] = "margin_std" -> IF Len(m) > 0 THEN Std(Slice(m, w)) ELSE 0
                  [] k[1] = "pf_avg"     -> IF Len(pf) > 0 THEN Mean(Slice(pf, w)) ELSE 0
                  [] k[1] = "pa_avg"     -> IF Len(pa) > 0 THEN Mean(Slice(pa, w)) ELSE 0
                  [] k[1] = "cnt"        -> Min(Len(m), w)]

----------------------------------------------------------------------------
(* The feature row.  A key <<prefix, name, w>> stands for the column        *)
(* "prefix_name_w"; w = 0 and prefix "" for the columns without them.       *)

K(name) == <<"", name, 0>>

\* AssembleRow that leaves rest_diff out unless both teams have played
AssembleRowOptionalRestDiff(S, date, home, away) ==
    LET home_roll == roll_stats(S, home)
        away_roll == roll_stats(S, away)
        feat1 == (K("home_adv") :> 1)
                 @@ (K("home_rest") :> rest_days(S, home, date))
                 @@ (K("away_rest") :> rest_days(S, away, date))
        feat2 == IF S.last_date[home] = None \/ S.last_date[away] = None
                 THEN feat1
                 ELSE feat1
                      @@ (K("rest_diff") :>
                             FSub(feat1[K("home_rest")], feat1[K("away_rest")]))
        feat3 == feat2
                 @@ (K("home_elo") :> S.elo[home])
                 @@ (K("away_elo") :> S.elo[away])
        feat4 == feat3
                 @@ (K("elo_diff") :>
                        (feat3[K("home_elo")] + elo_home_adv * RatingScale)
                        - feat3[K("away_elo")])
        feat5 == feat4
                 @@ [k \in {"home"} \X RollNames \X WindowSet |-> home_roll[<<k[2], k[3]>>]]
                 @@ [k \in {"away"} \X RollNames \X WindowSet |-> away_roll[<<k[2], k[3]>>]]
    IN  feat5
        @@ [k \in {"diff"} \X RollNames \X WindowSet |->
               feat5[<<"home", k[2], k[3]>>] - feat5[<<"away", k[2], k[3]>>]]

AssembleRow(S, date, home, away) ==
    LET home_roll == roll_stats(S, home)
        away_roll == roll_stats(S, away)
        feat1 == (K("home_adv") :> 1)
                 @@ (K("home_rest") :> rest_days(S, home, date))
                 @@ (K("away_rest") :> rest_days(S, away, date))
        feat2 == feat1
                 @@ (K("rest_diff") :> FSub(feat1[K("home_rest")], feat1[K("away_rest")]))
        feat3 == feat2
                 @@ (K("home_elo") :> S.elo[home])
                 @@ (K("away_elo") :> S.elo[away])
        feat4 == feat3
                 @@ (K("elo_diff") :>
                        (feat3[K("home_elo")] + elo_home_adv * RatingScale)
                        - feat3[K("away_elo")])
        feat5 == feat4
                 @@ [k \in {"home"} \X RollNames \X WindowSet |-> home_roll[<<k[2], k[3]>>]]
                 @@ [k \in {"away"} \X RollNames \X WindowSet |-> away_roll[<<k[2], k[3]>>]]
    IN  feat5
        @@ [k \in {"diff"} \X RollNames \X WindowSet |->
               feat5[<<"home", k[2], k[3]>>] - feat5[<<"away", k[2], k[3]>>]]

----------------------------------------------------------------------------
(* Column names.  A Python dict keeps its keys in the order they were first  *)
(* assigned; pd.DataFrame(rows) takes its columns from the rows' keys in the *)
(* order they first appear.                                                 *)

RECURSIVE Flatten(_)
Flatten(ss) == IF ss = <<>> THEN <<>> ELSE Head(ss) \o Flatten(Tail(ss))

\* s without the repetitions of an earlier entry
Dedup(s) ==
    LET idx == [n \in 1..Len(s) |-> n]
        kept == SelectSeq(idx, LAMBDA n : \A m \in 1..(n - 1) : s[m] # s[n])
    IN  [q \in 1..Len(kept) |-> s[kept[q]]]

\* the order in which roll_stats assigns the statistics of one window
RollOrder == <<"margin_avg", "margin_std", "pf_avg", "pa_avg", "cnt">>

\* the keys of out in roll_stats, in assignment order, under a prefix
RollKeys(prefix) ==
    Flatten([n \in 1..Len(windows) |->
                [q \in 1..Len(RollOrder) |-> <<prefix, RollOrder[q], windows[n]>>]])

\* the keys of feat, in the order the builders assign them
FeatKeys ==
    Dedup(<<K("home_adv"), K("home_rest"), K("away_rest"), K("rest_diff"),
            K("home_elo"), K("away_elo"), K("elo_diff")>>
          \o RollKeys("home") \o RollKeys("away") \o RollKeys("diff"))

\* list(feat.keys())
ListKeys(feat) == SelectSeq(FeatKeys, LAMBDA k : k \in DOMAIN feat)

\* list(pd.DataFrame(rows).columns)
DataFrameColumns(rows) ==
    Dedup(Flatten([n \in 1..Len(rows) |-> ListKeys(rows[n])]))

\* feature_cols as build_features_for_games returns it
feature_cols == DataFrameColumns(rows_feat)

----------------------------------------------------------------------------
(* Elo.                                                                    *)

\* 1 / (1 + 10 ** (-(x / 400))) in 1/ProbScale at x = -400, -375, ..., 400
LogisticTable ==
    <<909, 1035, 1177, 1334, 1510, 1704, 1917, 2150, 2403, 2675, 2966,
      3275, 3599, 3937, 4285, 4641, 5000, 5359, 5715, 6063, 6401, 6725,
      7034, 7325, 7597, 7850, 8083, 8296, 8490, 8666, 8823, 8965, 9091>>

TableLo == -400 * RatingScale
TableStep == 25 * RatingScale

\* exp_home, in 1/ProbScale: the table, linearly interpolated
ExpHome(home_elo_pre, away_elo_pre) ==
    LET x == (home_elo_pre + elo_home_adv * RatingScale) - away_elo_pre
        n == Len(LogisticTable)
        q == (x - TableLo) \div TableStep
        r == (x - TableLo) - q * TableStep
    IN  IF q < 0 THEN LogisticTable[1]
        ELSE IF q >= n - 1 THEN LogisticTable[n]
        ELSE LogisticTable[q + 1]
             + ((LogisticTable[q + 2] - LogisticTable[q + 1]) * r) \div TableStep

\* ActHome scoring a tie as a home win
ActHomeTieWins(margin) == IF margin >= 0 THEN ProbScale ELSE 0

\* act_home, in 1/ProbScale
ActHome(margin) == IF margin > 0 THEN ProbScale ELSE 0

\* elo_k * p for a probability difference p in 1/ProbScale, in rating units
KTimes(p) == (elo_k * RatingScale * p) \div ProbScale

\* EloUpdate giving the away side the complement of the result only
EloUpdateOneSided(S, hm, aw, margin, home_elo_pre, away_elo_pre) ==
    LET exp_home == ExpHome(home_elo_pre, away_elo_pre)
        act_home == ActHome(margin)
        e1 == [S.elo EXCEPT ![hm] = home_elo_pre + KTimes(act_home - exp_home)]
    IN  [e1 EXCEPT ![aw] = away_elo_pre + KTimes((ProbScale - act_home) - exp_home)]

EloUpdate(S, hm, aw, margin, home_elo_pre, away_elo_pre) ==
    LET exp_home == ExpHome(home_elo_pre, away_elo_pre)
        act_home == ActHome(margin)
        e1 == [S.elo EXCEPT ![hm] = home_elo_pre + KTimes(act_home - exp_home)]
    IN  [e1 EXCEPT ![aw] = away_elo_pre
                           + KTimes((ProbScale - act_home) - (ProbScale - exp_home))]

----------------------------------------------------------------------------
(* Applying a contest's outcome to the state.                              *)

\* RecordOutcome without the away side's points-against entry
RecordOutcomeNoAwayPa(S, g) ==
    LET hm == g.home_team
        aw == g.away_team
        home_margin == g.home_score - g.away_score
        m1 == [S.hist_margin EXCEPT ![hm] = Append(@, home_margin)]
        m2 == [m1 EXCEPT ![aw] = Append(@, -home_margin)]
        pf1 == [S.hist_pf EXCEPT ![hm] = Append(@, g.home_score)]
        pa1 == [S.hist_pa EXCEPT ![hm] = Append(@, g.away_score)]
        pf2 == [pf1 EXCEPT ![aw] = Append(@, g.away_score)]
        d1 == [S.last_date EXCEPT ![hm] = g.date]
        d2 == [d1 EXCEPT ![aw] = g.date]
    IN  [S EXCEPT !.hist_margin = m2, !.hist_pf = pf2, !.hist_pa = pa1,
                  !.last_date = d2]

\* the history and last-played updates of one contest
RecordOutcome(S, g) ==
    LET hm == g.home_team
        aw == g.away_team
        home_margin == g.home_score - g.away_score
        away_margin == -home_margin
        m1 == [S.hist_margin EXCEPT ![hm] = Append(@, home_margin)]
        m2 == [m1 EXCEPT ![aw] = Append(@, away_margin)]
        pf1 == [S.hist_pf EXCEPT ![hm] = Append(@, g.home_score)]
        pa1 == [S.hist_pa EXCEPT ![hm] = Append(@, g.away_score)]
        pf2 == [pf1 EXCEPT ![aw] = Append(@, g.away_score)]
        pa2 == [pa1 EXCEPT ![aw] = Append(@, g.home_score)]
        d1 == [S.last_date EXCEPT ![hm] = g.date]
        d2 == [d1 EXCEPT ![aw] = g.date]
    IN  [S EXCEPT !.hist_margin = m2, !.hist_pf = pf2, !.hist_pa = pa2,
                  !.last_date = d2]

\* training: the state update after row feat of contest g was recorded
TrainUpdate(S, g, feat) ==
    LET S1 == RecordOutcome(S, g)
    IN  [S1 EXCEPT !.elo = EloUpdate(S1, g.home_team, g.away_team,
                                     g.home_score - g.away_score,
                                     feat[K("home_elo")], feat[K("away_elo")])]

\* TrainBody with the histories appended before the row is assembled
TrainBodyAppendFirst(S, g) ==
    LET feat == AssembleRow(RecordOutcome(S, g), g.date, g.home_team, g.away_team)
    IN  [feat |-> feat,
         y |-> g.home_score - g.away_score,
         store |-> TrainUpdate(S, g, AssembleRow(S, g.date, g.home_team, g.away_team))]

\* TrainBody with the whole state update applied before the row is assembled
TrainBodyCommitFirst(S, g) ==
    LET pre == AssembleRow(S, g.date, g.home_team, g.away_team)
        S1 == TrainUpdate(S, g, pre)
    IN  [feat |-> AssembleRow(S1, g.date, g.home_team, g.away_team),
         y |-> g.home_score - g.away_score,
         store |-> S1]

\* training: the loop body for contest g on state S
TrainBody(S, g) ==
    LET feat == AssembleRow(S, g.date, g.home_team, g.away_team)
    IN  [feat |-> feat,
         y |-> g.home_score - g.away_score,
         store |-> TrainUpdate(S, g, feat)]

\* CursorUpdate leaving the ratings as they were
CursorUpdateNoRatings(S, g) == RecordOutcome(S, g)

\* inference: one pass of the cursor loop's body, for historical contest g
CursorUpdate(S, g) ==
    LET S1 == RecordOutcome(S, g)
    IN  [S1 EXCEPT !.elo = EloUpdate(S1, g.home_team, g.away_team,
                                     g.home_score - g.away_score,
                                     S.elo[g.home_team], S.elo[g.away_team])]

\* CursorCond also consuming the contests of the matchup's own day
CursorCondSameDay(game_date) ==
    i < Len(df) /\ df[i + 1].date # NaT /\ game_date # NaT /\ df[i + 1].date <= game_date

\* inference: the cursor loop's condition for a matchup dated game_date
CursorCond(game_date) == i < Len(df) /\ DateLT(df[i + 1].date, game_date)

\* inference: the row of matchup request r on state S
MatchupRow(S, r) == AssembleRow(S, r.Date, r.Home, r.Away)

SetStore(S) ==
    /\ hist_margin' = S.hist_margin
    /\ hist_pf' = S.hist_pf
    /\ hist_pa' = S.hist_pa
    /\ last_date' = S.last_date
    /\ elo' = S.elo

----------------------------------------------------------------------------
(* The calls.                                                              *)

InitCommon ==
    /\ pc = "start"
    /\ df = <<>>
    /\ subs = <<>>
    /\ hist_margin = FreshStore.hist_margin
    /\ hist_pf = FreshStore.hist_pf
    /\ hist_pa = FreshStore.hist_pa
    /\ last_date = FreshStore.last_date
    /\ elo = FreshStore.elo
    /\ i = 0
    /\ j = 0
    /\ rows_feat = <<>>
    /\ rows_y = <<>>
    /\ out_feats = <<>>
    /\ ref_df = <<>>
    /\ ref_rows = <<>>
    /\ roll_out = <<>>

InitTrain ==
    /\ mode = "train"
    /\ games \in SeqsUpTo(Contests(TrainResults, TrainDates), MaxGames)
    /\ matchups = <<>>
    /\ InitCommon

InitInfer ==
    /\ mode = "infer"
    /\ games \in SeqsUpTo(Contests(HistResults, HistDates), MaxHist)
    /\ matchups \in SeqsUpTo(Requests, MaxMatchups)
    /\ InitCommon

Init == InitTrain \/ InitInfer

\* build_features_for_games up to its loop: sort, fresh state
TrainStart ==
    /\ mode = "train"
    /\ pc = "start"
    /\ df' \in sort_values(games)
    /\ SetStore(FreshStore)
    /\ i' = 0
    /\ rows_feat' = <<>>
    /\ rows_y' = <<>>
    /\ pc' = "loop"
    /\ UNCHANGED <<mode, games, matchups, subs, j, out_feats, ref_df, ref_rows, roll_out>>

\* one pass of the loop over df
TrainStep ==
    /\ mode = "train"
    /\ pc = "loop"
    /\ i < Len(df)
    /\ LET b == TrainBody(CurStore, df[i + 1])
       IN  /\ rows_feat' = Append(rows_feat, b.feat)
           /\ rows_y' = Append(rows_y, b.y)
           /\ SetStore(b.store)
    /\ i' = i + 1
    /\ UNCHANGED <<mode, pc, games, matchups, df, subs, j, out_feats, ref_df, ref_rows, roll_out>>

\* the loop is over: the tables are returned
TrainDone ==
    /\ mode = "train"
    /\ pc = "loop"
    /\ i = Len(df)
    /\ pc' = "done"
    /\ UNCHANGED <<mode, games, matchups, df, subs, store, i, j, rows_feat,
                   rows_y, out_feats, ref_df, ref_rows, roll_out>>

\* build_features_for_matchups up to its loop: sort the log, copy the
\* requests, fresh state
InferStart ==
    /\ mode = "infer"
    /\ pc = "start"
    /\ df' \in sort_values(games)
    /\ subs' = matchups
    /\ SetStore(FreshStore)
    /\ i' = 0
    /\ j' = 0
    /\ out_feats' = <<>>
    /\ pc' = "loop"
    /\ UNCHANGED <<mode, games, matchups, rows_feat, rows_y, ref_df, ref_rows, roll_out>>

\* one pass of the cursor loop for the current matchup request
CursorAdvance ==
    /\ mode = "infer"
    /\ pc = "loop"
    /\ j < Len(subs)
    /\ CursorCond(subs[j + 1].Date)
    /\ SetStore(CursorUpdate(CurStore, df[i + 1]))
    /\ i' = i + 1
    /\ UNCHANGED <<mode, pc, games, matchups, df, subs, j, rows_feat, rows_y,
                   out_feats, ref_df, ref_rows, roll_out>>

\* EmitMatchup also marking the two teams as having played on the matchup's date
EmitMatchupTouchesState ==
    /\ mode = "infer"
    /\ pc = "loop"
    /\ j < Len(subs)
    /\ ~CursorCond(subs[j + 1].Date)
    /\ out_feats' = Append(out_feats, MatchupRow(CurStore, subs[j + 1]))
    /\ last_date' = [last_date EXCEPT ![subs[j + 1].Home] = subs[j + 1].Date,
                                      ![subs[j + 1].Away] = subs[j + 1].Date]
    /\ j' = j + 1
    /\ UNCHANGED <<mode, pc, games, matchups, df, subs, hist_margin, hist_pf,
                   hist_pa, elo, i, rows_feat, rows_y, ref_df, ref_rows, roll_out>>

\* EmitMatchup also taking the cursor back to the start of the log
EmitMatchupRewind ==
    /\ mode = "infer"
    /\ pc = "loop"
    /\ j < Len(subs)
    /\ ~CursorCond(subs[j + 1].Date)
    /\ out_feats' = Append(out_feats, MatchupRow(CurStore, subs[j + 1]))
    /\ j' = j + 1
    /\ i' = 0
    /\ UNCHANGED <<mode, pc, games, matchups, df, subs, store, rows_feat,
                   rows_y, ref_df, ref_rows, roll_out>>

\* the cursor loop is over: the row of the current request is emitted
EmitMatchup ==
    /\ mode = "infer"
    /\ pc = "loop"
    /\ j < Len(subs)
    /\ ~CursorCond(subs[j + 1].Date)
    /\ out_feats' = Append(out_feats, MatchupRow(CurStore, subs[j + 1]))
    /\ j' = j + 1
    /\ UNCHANGED <<mode, pc, games, matchups, df, subs, store, i, rows_feat,
                   rows_y, ref_df, ref_rows, roll_out>>

\* all requests served: the table is returned
InferDone ==
    /\ mode = "infer"
    /\ pc = "loop"
    /\ j = Len(subs)
    /\ pc' = "done"
    /\ UNCHANGED <<mode, games, matchups, df, subs, store, i, j, rows_feat,
                   rows_y, out_feats, ref_df, ref_rows, roll_out>>

Next ==
    \/ TrainStart
    \/ TrainStep
    \/ TrainDone
    \/ InferStart
    \/ CursorAdvance
    \/ EmitMatchup
    \/ InferDone

Spec == Init /\ [][Next]_vars

\* build_features_for_matchups alone
NextInfer ==
    \/ InferStart
    \/ CursorAdvance
    \/ EmitMatchup
    \/ InferDone

\* the call's position moves: the interpreter runs the statements of a call
\* one after the other until it returns, and every step of NextInfer changes
\* pc, i or j
Proceed ==
    /\ mode = "infer"
    /\ pc # "done"
    /\ pc' \in {"loop", "done"}
    /\ i' \in 0..MaxHist
    /\ j' \in 0..MaxMatchups

SpecInferFair == InitInfer /\ [][NextInfer]_vars /\ WF_<<pc, i, j>>(Proceed)

----------------------------------------------------------------------------
(* A caller that builds the training table of a log and then asks           *)
(* build_features_for_matchups, against the same log, for the one matchup   *)
(* that has the date and the teams of contest k.                            *)

AgreeResults == {<<"A", "B", 70, 60>>, <<"B", "A", 60, 70>>, <<"C", "D", 70, 60>>}

AgreeDates == {1, 3}

InitAgree ==
    /\ mode = "train"
    /\ games \in SeqsUpTo(Contests(AgreeResults, AgreeDates), MaxLog)
    /\ matchups = <<>>
    /\ InitCommon

\* ref_df keeps the sorted log up to contest k, ref_rows the training rows
MatchupOfContest ==
    /\ mode = "train"
    /\ pc = "done"
    /\ \E k \in 1..Len(df) :
          /\ matchups' = <<[Date |-> df[k].date, Away |-> df[k].away_team,
                            Home |-> df[k].home_team]>>
          /\ ref_df' = SubSeq(df, 1, k)
    /\ ref_rows' = rows_feat
    /\ mode' = "infer"
    /\ pc' = "start"
    /\ UNCHANGED <<games, df, subs, store, i, j, rows_feat, rows_y, out_feats, roll_out>>

NextAgree ==
    \/ TrainStart
    \/ TrainStep
    \/ TrainDone
    \/ MatchupOfContest
    \/ InferStart
    \/ CursorAdvance
    \/ EmitMatchup
    \/ InferDone

SpecAgree == InitAgree /\ [][NextAgree]_vars

TypeOK ==
    /\ mode \in {"train", "infer", "roll"}
    /\ pc \in {"start", "loop", "done"}
    /\ i \in 0..Len(df)
    /\ j \in 0..Len(subs)

----------------------------------------------------------------------------
(* A caller that builds the training table of a log and then builds it     *)
(* again from the sorted log cut after contest k, with any scores for k.   *)

Rebuild ==
    /\ mode = "train"
    /\ pc = "done"
    /\ ref_df = <<>>
    /\ Len(df) > 0
    /\ \E k \in 1..Len(df), sc \in ScorePairs :
          games' = [SubSeq(df, 1, k) EXCEPT ![k].home_score = sc[1],
                                            ![k].away_score = sc[2]]
    /\ ref_df' = df
    /\ ref_rows' = rows_feat
    /\ pc' = "start"
    /\ UNCHANGED <<mode, matchups, df, subs, store, i, j, rows_feat, rows_y, out_feats,
                   roll_out>>

NextRebuild ==
    \/ TrainStart
    \/ TrainStep
    \/ TrainDone
    \/ Rebuild

SpecRebuild == InitTrain /\ [][NextRebuild]_vars

----------------------------------------------------------------------------
(* roll_stats on its own: the histories of team A are those of any MaxLen   *)
(* or fewer contests, the other teams have none.                           *)

InitRoll ==
    /\ mode = "roll"
    /\ pc = "start"
    /\ games = <<>>
    /\ matchups = <<>>
    /\ df = <<>>
    /\ subs = <<>>
    /\ \E h \in SeqsUpTo(ScorePairs, MaxLen) :
          /\ hist_pf = [FreshStore.hist_pf EXCEPT
                           !["A"] = [k \in 1..Len(h) |-> h[k][1]]]
          /\ hist_pa = [FreshStore.hist_pa EXCEPT
                           !["A"] = [k \in 1..Len(h) |-> h[k][2]]]
          /\ hist_margin = [FreshStore.hist_margin EXCEPT
                               !["A"] = [k \in 1..Len(h) |-> h[k][1] - h[k][2]]]
    /\ last_date = FreshStore.last_date
    /\ elo = FreshStore.elo
    /\ i = 0
    /\ j = 0
    /\ rows_feat = <<>>
    /\ rows_y = <<>>
    /\ out_feats = <<>>
    /\ ref_df = <<>>
    /\ ref_rows = <<>>
    /\ roll_out = <<>>

RollCall ==
    /\ mode = "roll"
    /\ pc = "start"
    /\ roll_out' = [t \in Teams |-> roll_stats(CurStore, t)]
    /\ pc' = "done"
    /\ UNCHANGED <<mode, games, matchups, df, subs, store, i, j, rows_feat,
                   rows_y, out_feats, ref_df, ref_rows>>

SpecRoll == InitRoll /\ [][RollCall]_vars

----------------------------------------------------------------------------
(* Reference definitions for the properties.                               *)

Margin(g) == g.home_score - g.away_score

\* the state after the outcome of contest g is known: both teams' histories
\* get the contest, both played on its date, and the pair's ratings move by
\* the Elo step computed from the ratings before the contest
Outcome(S, g) ==
    LET S1 == RecordOutcome(S, g)
    IN  [S1 EXCEPT !.elo = EloUpdate(S, g.home_team, g.away_team, Margin(g),
                                     S.elo[g.home_team], S.elo[g.away_team])]

\* the state after the first n contests of log
RECURSIVE After(_, _)
After(log, n) == IF n = 0 THEN FreshStore ELSE Outcome(After(log, n - 1), log[n])

\* the contests of log dated strictly before d
Before(log, d) == SelectSeq(log, LAMBDA g : DateLT(g.date, d))

\* the state that knows exactly the contests dated strictly before d
KnownBefore(d) == After(Before(df, d), Len(Before(df, d)))

DateLE(a, b) == a # NaT /\ b # NaT /\ a <= b

MatchupsSorted == \A k \in 1..(Len(subs) - 1) : DateLE(subs[k].Date, subs[k + 1].Date)

SameFixture(g, h) ==
    g.date = h.date /\ g.home_team = h.home_team /\ g.away_team = h.away_team

IsPrefix(s, t) == Len(s) <= Len(t) /\ SubSeq(t, 1, Len(s)) = s

\* the last n entries of s
LastN(s, n) == [k \in 1..n |-> s[Len(s) - n + k]]

\* v is the mean of s to the nearest 1/StatScale
IsMeanOf(v, s) ==
    LET d == 2 * (v * Len(s) - StatScale * Sum(s))
    IN  -Len(s) <= d /\ d <= Len(s)

----------------------------------------------------------------------------
(* Properties.                                                             *)

\* C1: no lookahead in training mode.  When the table is built again from the
\* sorted log cut after contest k (whatever k's scores are), every contest that
\* has the same predecessors and the same date and teams in both builds gets
\* the same feature row in both.
NoLookahead ==
    (mode = "train" /\ ref_df # <<>> /\ pc # "start") =>
        \A k \in 1..Len(rows_feat) :
            (/\ SubSeq(df, 1, k - 1) = SubSeq(ref_df, 1, k - 1)
             /\ SameFixture(df[k], ref_df[k]))
            => rows_feat[k] = ref_rows[k]

\* C1 witness: the rebuild from the log cut after its second contest, with
\* other scores for that contest, has emitted the second row.
NoLookaheadWitness ==
    /\ mode = "train"
    /\ ref_df # <<>>
    /\ pc = "done"
    /\ Len(df) = 2
    /\ df[1] = ref_df[1]
    /\ SameFixture(df[2], ref_df[2])
    /\ Margin(df[2]) # Margin(ref_df[2])
    /\ df[1].home_team \in {df[2].home_team, df[2].away_team}

\* C2: in inference mode with the requests in non-decreasing date order, the
\* state from which a request's row is emitted knows exactly the historical
\* contests dated strictly before the request, and so does every emitted row.
CursorExact ==
    (mode = "infer" /\ pc # "start" /\ MatchupsSorted) =>
        /\ \A r \in 1..Len(out_feats) :
              out_feats[r] = MatchupRow(KnownBefore(subs[r].Date), subs[r])
        /\ (pc = "loop" /\ j < Len(subs) /\ ~CursorCond(subs[j + 1].Date))
              => CurStore = KnownBefore(subs[j + 1].Date)

\* C2 witness: history on days 1 and 3, requests on days 2 and 20; the first
\* row knows only the day-1 contest, the second knows both.
CursorExactWitness ==
    /\ mode = "infer"
    /\ pc = "done"
    /\ Len(df) = 2
    /\ Len(subs) = 2
    /\ <<df[1].date, df[2].date>> = <<1, 3>>
    /\ <<subs[1].Date, subs[2].Date>> = <<2, 20>>
    /\ out_feats[1] = MatchupRow(After(df, 1), subs[1])
    /\ out_feats[2] = MatchupRow(After(df, 2), subs[2])
    /\ out_feats[1] # MatchupRow(After(df, 2), subs[1])
    /\ out_feats[2] # MatchupRow(After(df, 1), subs[2])

\* C3: for any order of the requests, no emitted row of a dated request
\* reflects a historical contest dated on or after the request.
NoStaleRow ==
    mode = "infer" =>
        \A r \in 1..Len(out_feats) :
            subs[r].Date # NaT =>
                out_feats[r] = MatchupRow(KnownBefore(subs[r].Date), subs[r])

\* C4: emit before commit in training mode.  After i contests the state is
\* that of contests 1..i, and row k and target k were computed from the state
\* of contests 1..k-1.
EmitBeforeCommit ==
    (mode = "train" /\ pc # "start") =>
        /\ Len(rows_feat) = i
        /\ Len(rows_y) = i
        /\ CurStore = After(df, i)
        /\ \A k \in 1..i :
              /\ rows_feat[k] = AssembleRow(After(df, k - 1), df[k].date,
                                            df[k].home_team, df[k].away_team)
              /\ rows_y[k] = Margin(df[k])

\* C4 witness: the home team won the first contest, and the second contest of
\* the same two teams read ratings other than the baseline.
EmitBeforeCommitWitness ==
    /\ mode = "train"
    /\ i = 2
    /\ Margin(df[1]) > 0
    /\ df[2].home_team = df[1].away_team
    /\ df[2].away_team = df[1].home_team
    /\ rows_feat[1][K("home_elo")] = Baseline
    /\ rows_feat[2][K("home_elo")] < Baseline
    /\ rows_feat[2][K("away_elo")] > Baseline

\* C5: every rating update is zero-sum over the pair and touches no other team.
RatingConserved ==
    [][i' = i + 1 =>
          LET g == df[i + 1]
          IN  /\ elo'[g.home_team] + elo'[g.away_team]
                 = elo[g.home_team] + elo[g.away_team]
              /\ \A t \in Teams \ {g.home_team, g.away_team} : elo'[t] = elo[t]]_vars

\* C5 witness: two updates have been applied and moved a rating.
RatingConservedWitness ==
    /\ i = 2
    /\ elo[df[2].home_team] # Baseline
    /\ elo[df[2].away_team] # Baseline

\* C6: a team's three histories always have the same length.
HistoryLengths ==
    \A t \in Teams :
        /\ Len(hist_margin[t]) = Len(hist_pf[t])
        /\ Len(hist_pf[t]) = Len(hist_pa[t])

\* C6 witness: a team with two recorded contests.
HistoryLengthsWitness ==
    \E t \in Teams : Len(hist_margin[t]) = 2 /\ Len(hist_pa[t]) = 2

\* C7: emitting a request's row changes nothing of the team state; in
\* inference the state changes only in a cursor advance, and the histories
\* only grow at their end.
EmitFrame ==
    [][mode = "infer" /\ pc = "loop" =>
          /\ j' # j => UNCHANGED store
          /\ ~UNCHANGED store => (i' = i + 1 /\ j' = j)
          /\ \A t \in Teams :
                /\ IsPrefix(hist_margin[t], hist_margin'[t])
                /\ IsPrefix(hist_pf[t], hist_pf'[t])
                /\ IsPrefix(hist_pa[t], hist_pa'[t])]_vars

\* C7 witness: a row was emitted after the cursor had advanced twice.
EmitFrameWitness ==
    /\ mode = "infer"
    /\ i = 2
    /\ j >= 1
    /\ Len(out_feats) = j
    /\ \E t \in Teams : Len(hist_margin[t]) = 2

\* C8: roll_stats at the window boundary.  For a team with m contests and a
\* window w, cnt is min(m, w), the averages are the means of the last
\* min(m, w) entries, and a team without a contest has every statistic 0.
WindowBoundary ==
    (mode = "roll" /\ pc = "done") =>
        \A t \in Teams : \A w \in WindowSet :
            LET rs == roll_out[t]
                m == Len(hist_margin[t])
                n == Min(m, w)
            IN  /\ rs[<<"cnt", w>>] = n
                /\ m = 0 => \A name \in RollNames : rs[<<name, w>>] = 0
                /\ m > 0 =>
                      /\ IsMeanOf(rs[<<"margin_avg", w>>], LastN(hist_margin[t], n))
                      /\ IsMeanOf(rs[<<"pf_avg", w>>], LastN(hist_pf[t], n))
                      /\ IsMeanOf(rs[<<"pa_avg", w>>], LastN(hist_pa[t], n))
                      /\ rs[<<"margin_std", w>>] = Std(LastN(hist_margin[t], n))

\* C8 witness: roll_stats was called for a team whose three contests exceed
\* both windows and whose windows differ, for a team with one contest (fewer
\* than window 2), and for a team without any.
WindowBoundaryWitness ==
    /\ mode = "roll"
    /\ pc = "done"
    /\ Len(hist_margin["A"]) = 3
    /\ roll_out["A"][<<"cnt", 1>>] = 1
    /\ roll_out["A"][<<"cnt", 2>>] = 2
    /\ roll_out["A"][<<"margin_avg", 1>>] # roll_out["A"][<<"margin_avg", 2>>]
    /\ roll_out["A"][<<"margin_avg", 2>>] # Mean(hist_margin["A"])
    /\ roll_out["B"][<<"cnt", 2>>] = 0

\* C9: every rest-day feature of every emitted row lies in [0, 14].
RestInRange ==
    /\ \A k \in 1..Len(rows_feat) :
          /\ rows_feat[k][K("home_rest")] \in 0..MaxRest
          /\ rows_feat[k][K("away_rest")] \in 0..MaxRest
    /\ \A k \in 1..Len(out_feats) :
          /\ out_feats[k][K("home_rest")] \in 0..MaxRest
          /\ out_feats[k][K("away_rest")] \in 0..MaxRest

\* C10: a tied contest is scored as a home loss: the home rating strictly
\* falls and the away rating rises by the same amount.
TiePolicy ==
    [][(i' = i + 1 /\ Margin(df[i + 1]) = 0) =>
          LET g == df[i + 1]
          IN  /\ elo'[g.home_team] < elo[g.home_team]
              /\ elo'[g.away_team] > elo[g.away_team]
              /\ elo'[g.away_team] - elo[g.away_team]
                 = elo[g.home_team] - elo'[g.home_team]]_vars

\* C10 witness: the first contest was a tie and has been applied.
TiePolicyWitness ==
    /\ i = 1
    /\ Margin(df[1]) = 0
    /\ elo[df[1].home_team] < Baseline
    /\ elo[df[1].away_team] > Baseline

----------------------------------------------------------------------------
(* Properties of the column names, the sort and the cursor.                *)

\* the feature names that the window sizes alone determine: seven fixed
\* names, then for each of home, away and diff the five statistics of each
\* window
FeatureNames ==
    LET nstat == 5
        stat == [q \in 1..nstat |->
                    CASE q = 1 -> "margin_avg" [] q = 2 -> "margin_std"
                      [] q = 3 -> "pf_avg" [] q = 4 -> "pa_avg" [] q = 5 -> "cnt"]
        Block(p) == [n \in 1..(nstat * Len(windows)) |->
                        <<p, stat[((n - 1) % nstat) + 1],
                          windows[((n - 1) \div nstat) + 1]>>]
    IN  <<<<"", "home_adv", 0>>, <<"", "home_rest", 0>>, <<"", "away_rest", 0>>,
          <<"", "rest_diff", 0>>, <<"", "home_elo", 0>>, <<"", "away_elo", 0>>,
          <<"", "elo_diff", 0>>>>
        \o Block("home") \o Block("away") \o Block("diff")

\* C11: column stability and fixed row shape in training.  Every emitted row
\* has exactly the keys FeatureNames, in that order; the returned column list
\* is FeatureNames as soon as there is a row (and empty for an empty table);
\* and a second build returns the same column list as the first.
ColumnStability ==
    (mode = "train" /\ pc # "start") =>
        /\ \A k \in 1..Len(rows_feat) :
              /\ DOMAIN rows_feat[k] = {FeatureNames[n] : n \in 1..Len(FeatureNames)}
              /\ ListKeys(rows_feat[k]) = FeatureNames
        /\ feature_cols = IF rows_feat = <<>> THEN <<>> ELSE FeatureNames
        /\ (pc = "done" /\ ref_df # <<>>) => feature_cols = DataFrameColumns(ref_rows)

\* C11 witness: the same two-contest log was built twice; its first row is
\* that of two teams without history and carries their zero statistics.
ColumnStabilityWitness ==
    /\ mode = "train"
    /\ pc = "done"
    /\ ref_df # <<>>
    /\ df = ref_df
    /\ Len(rows_feat) = 2
    /\ rows_feat[1][<<"home", "cnt", 2>>] = 0
    /\ rows_feat[2][<<"home", "cnt", 2>>] + rows_feat[2][<<"away", "cnt", 2>>] > 0
    /\ Len(feature_cols) = 7 + 15 * Len(windows)
    /\ feature_cols = DataFrameColumns(ref_rows)

\* the rows of s ordered by date, rows of one date in their order in s
RECURSIVE StableByDate(_, _)
StableByDate(s, dates) ==
    IF dates = {} THEN <<>>
    ELSE LET d == CHOOSE x \in dates : \A y \in dates : x <= y
         IN  SelectSeq(s, LAMBDA g : g.date = d) \o StableByDate(s, dates \ {d})

\* C12: in both builders the contests of one date are processed in their
\* input order: once sorted, the log is the stable sort by date of the input.
SortKeepsInputOrder ==
    pc # "start" =>
        df = StableByDate(games, {games[n].date : n \in 1..Len(games)})

\* C13: cursor discipline of the inference build, whatever the order of the
\* requests.  The cursor stays within the log and moves forward one contest
\* at a time; the state is always that of the first i contests of the sorted
\* log, each applied once; one row is emitted per request served, and the
\* build ends with one row for every request.
CursorDiscipline ==
    /\ []((mode = "infer" /\ pc # "start") =>
             /\ i \in 0..Len(df)
             /\ CurStore = After(df, i)
             /\ \A t \in Teams :
                   Len(hist_margin[t]) =
                       Cardinality({n \in 1..i : t \in {df[n].home_team, df[n].away_team}})
             /\ j \in 0..Len(subs)
             /\ Len(out_feats) = j
             /\ pc = "done" => j = Len(subs))
    /\ [][(mode = "infer" /\ pc # "start") =>
             /\ i' \in {i, i + 1}
             /\ j' \in {j, j + 1}
             /\ (i' = i + 1) => (/\ [hist_margin |-> hist_margin', hist_pf |-> hist_pf',
                                     hist_pa |-> hist_pa', last_date |-> last_date',
                                     elo |-> elo'] = Outcome(CurStore, df[i + 1])
                                 /\ j' = j)
             /\ (i' = i) => store' = store]_vars
    /\ <>(pc = "done" /\ Len(out_feats) = Len(matchups))

\* C13 witness: two requests in descending date order against a two-contest
\* log; the first request drew the cursor to the end, the second left it
\* there, and both rows were emitted.
CursorDisciplineWitness ==
    /\ mode = "infer"
    /\ pc = "done"
    /\ Len(df) = 2
    /\ Len(subs) = 2
    /\ subs[1].Date = 20
    /\ subs[2].Date = 2
    /\ i = 2
    /\ Len(out_feats) = 2
    /\ CurStore = After(df, 2)

----------------------------------------------------------------------------
(* Training and inference rows of one contest.                             *)

TeamsOf(g) == {g.home_team, g.away_team}

\* both builds are over and the second sort put the log up to contest k in
\* the order of the first (sort_values is a function of its input)
BothBuilt ==
    /\ mode = "infer"
    /\ pc = "done"
    /\ ref_df # <<>>
    /\ IsPrefix(ref_df, df)

\* no contest placed before contest k on k's own date involves a team of k
NoEarlierSameDayShared ==
    LET k == Len(ref_df)
    IN  \A n \in 1..(k - 1) :
           ref_df[n].date = ref_df[k].date => TeamsOf(ref_df[n]) \cap TeamsOf(ref_df[k]) = {}

\* C14 as stated: the training row of every contest k equals the row of the
\* matchup (date, home, away of k) built against the same log, whatever
\* contests share k's date.
TrainInferAgree ==
    BothBuilt => out_feats[1] = ref_rows[Len(ref_df)]

\* C14 amended: the two rows are equal provided no contest that the sorted
\* log places before k on k's own date involves k's home or away team.
TrainInferAgreeOffDay ==
    (BothBuilt /\ NoEarlierSameDayShared) => out_feats[1] = ref_rows[Len(ref_df)]

\* C14 witness: contest k is the third of the sorted log, after a contest of
\* its own teams on an earlier day and a contest of two other teams on its
\* own day; its two rows are equal and are not the row of two fresh teams.
TrainInferAgreeOffDayWitness ==
    /\ BothBuilt
    /\ NoEarlierSameDayShared
    /\ Len(ref_df) = 3
    /\ ref_df[1].date < ref_df[3].date
    /\ TeamsOf(ref_df[1]) = TeamsOf(ref_df[3])
    /\ ref_df[2].date = ref_df[3].date
    /\ out_feats[1] = ref_rows[3]
    /\ out_feats[1][<<"home", "cnt", 1>>] = 1
    /\ i = 1

====
